---- MODULE Spec2Model ----
(***************************************************************************)
(* State-machine model of the client list view (ClientList) and of the    *)
(* login screen (Login) of the CRMLYZ front end.                           *)
(*                                                                         *)
(* Encoding of values:                                                     *)
(*   - an optional value is a sequence: <<>> is undefined/null, <<v>> is v *)
(*   - a text that is searched (fullName, email, companyName, search) is   *)
(*     a sequence of one-character strings, so that toLowerCase() and      *)
(*     includes() are computed character by character                     *)
(*   - a Date is its getTime() value; NaN is the time of an Invalid Date   *)
(*   - createdAt is a code of the stored text: t >= 0 is the text of the   *)
(*     instant t, a negative code is a text Date cannot parse              *)
(***************************************************************************)
EXTENDS Integers, Sequences, FiniteSets, TLC

VARIABLES
    clients,          \* props.clients: sequence of Client records
    filterParams,     \* useState<ClientFilterParams>
    showFilters,      \* useState(false)
    clientToDelete,   \* useState<Client | null>
    showDetails,      \* useState<string | null>
    filteredClients,  \* the list computed by the last render
    detailsPanel,     \* the content of the details Dialog in the last render
    deleteCalls,      \* ids passed to onDeleteClient by the last handler run
    editCalls,        \* clients passed to onEditClient by the last handler run
    lastAction,       \* the last handler that ran, and how it ended
    resetFrom,        \* the filterParams replaced by the last handler run, if it was Reset Filters
    intent,           \* the last delete-intent not yet cancelled, dismissed or confirmed with a returning call
    email,            \* Login: useState("")
    password,         \* Login: useState("")
    isLoading,        \* Login: useState(false)
    pending,          \* Login: the handler suspended at "await login(...)"
    toasts,           \* Login: the toasts shown so far
    navigateCalls,    \* Login: the routes passed to navigate() by the handlers
    location          \* Login: the current route

clientVars == <<clients, filterParams, showFilters, clientToDelete, showDetails,
                filteredClients, detailsPanel, deleteCalls, editCalls, lastAction,
                resetFrom, intent>>
loginVars == <<email, password, isLoading, pending, toasts, navigateCalls, location>>
vars == <<clients, filterParams, showFilters, clientToDelete, showDetails,
          filteredClients, detailsPanel, deleteCalls, editCalls, lastAction,
          resetFrom, intent,
          email, password, isLoading, pending, toasts, navigateCalls, location>>

-----------------------------------------------------------------------------
(* Bounds of the model *)

MaxClients == 2
MaxTime == 3
MaxToasts == 2

-----------------------------------------------------------------------------
(* Values *)

Undefined == <<>>
Some(v) == <<v>>

NaN == -1
BadCreatedAt == -7

Times == 0..MaxTime
CreatedAtValues == Times \cup {BadCreatedAt}
DateInputs == {Undefined, Some(NaN)} \cup {Some(t) : t \in Times}

Client(id, fullName, mail, companyName, tags, createdAt) ==
    [id |-> id, fullName |-> fullName, email |-> mail,
     companyName |-> companyName, tags |-> tags, createdAt |-> createdAt]

DefaultFilterParams ==
    [search |-> <<>>, tag |-> Undefined, dateRange |-> Undefined]

-----------------------------------------------------------------------------
(* String.prototype.toLowerCase and String.prototype.includes *)

toLowerCaseChar(ch) ==
    CASE ch = "A" -> "a"
      [] ch = "B" -> "b"
      [] OTHER -> ch

toLowerCase(s) == [i \in 1..Len(s) |-> toLowerCaseChar(s[i])]

includes(hay, needle) ==
    \E off \in 0..(Len(hay) - Len(needle)) :
        \A j \in 1..Len(needle) : hay[off + j] = needle[j]

(* date-fns isValid, isAfter, isBefore; new Date(text) *)

isValid(d) == d # NaN
(* isAfter that also accepts the same instant *)
isAfter_orEqual(d, cmp) == d # NaN /\ cmp # NaN /\ d >= cmp
isAfter(d, cmp) == d # NaN /\ cmp # NaN /\ d > cmp
isBefore(d, cmp) == d # NaN /\ cmp # NaN /\ d < cmp
NewDate(text) == IF text < 0 THEN NaN ELSE text

-----------------------------------------------------------------------------
(* The filter of the render: clients.filter(client => ...) *)

(* searchMatch with the typed text compared as typed *)
searchMatch_searchAsTyped(client, fp) ==
    \/ fp.search = <<>>
    \/ includes(toLowerCase(client.fullName), fp.search)
    \/ includes(toLowerCase(client.email), fp.search)
    \/ /\ client.companyName # Undefined
       /\ includes(toLowerCase(client.companyName[1]), fp.search)

searchMatch(client, fp) ==
    \/ fp.search = <<>>
    \/ includes(toLowerCase(client.fullName), toLowerCase(fp.search))
    \/ includes(toLowerCase(client.email), toLowerCase(fp.search))
    \/ /\ client.companyName # Undefined
       /\ includes(toLowerCase(client.companyName[1]), toLowerCase(fp.search))

tagMatch(client, fp) ==
    \/ fp.tag = Undefined
    \/ fp.tag = Some("")
    \/ /\ client.tags # Undefined
       /\ \E i \in 1..Len(client.tags[1]) : client.tags[1][i] = fp.tag[1]

dateFrom(fp) == IF fp.dateRange = Undefined THEN Undefined ELSE fp.dateRange[1].from
dateTo(fp) == IF fp.dateRange = Undefined THEN Undefined ELSE fp.dateRange[1].to

(* dateMatch that applies a bound without isValid *)
dateMatch_noValidCheck(client, fp) ==
    IF dateFrom(fp) # Undefined \/ dateTo(fp) # Undefined
    THEN LET createdDate == NewDate(client.createdAt)
             afterFrom == IF dateFrom(fp) # Undefined
                          THEN isAfter(createdDate, dateFrom(fp)[1])
                          ELSE TRUE
             beforeTo == IF dateTo(fp) # Undefined
                         THEN isBefore(createdDate, dateTo(fp)[1])
                         ELSE TRUE
         IN afterFrom /\ beforeTo
    ELSE TRUE

dateMatch(client, fp) ==
    IF dateFrom(fp) # Undefined \/ dateTo(fp) # Undefined
    THEN LET createdDate == NewDate(client.createdAt)
             afterFrom == IF dateFrom(fp) # Undefined /\ isValid(dateFrom(fp)[1])
                          THEN isAfter(createdDate, dateFrom(fp)[1])
                          ELSE TRUE
             beforeTo == IF dateTo(fp) # Undefined /\ isValid(dateTo(fp)[1])
                         THEN isBefore(createdDate, dateTo(fp)[1])
                         ELSE TRUE
         IN afterFrom /\ beforeTo
    ELSE TRUE

clientPasses(client, fp) ==
    searchMatch(client, fp) /\ tagMatch(client, fp) /\ dateMatch(client, fp)

RECURSIVE filterClients(_, _)
filterClients(cs, fp) ==
    IF cs = <<>> THEN <<>>
    ELSE IF clientPasses(Head(cs), fp)
         THEN <<Head(cs)>> \o filterClients(Tail(cs), fp)
         ELSE filterClients(Tail(cs), fp)

(* [...new Set(clients.flatMap(client => client.tags || []))] *)
uniqueTags(cs) ==
    UNION {IF cs[i].tags = Undefined
           THEN {}
           ELSE {cs[i].tags[1][j] : j \in 1..Len(cs[i].tags[1])} : i \in 1..Len(cs)}

(* clients.find(c => c.id === id): the first client with that id *)
findClient(cs, id) ==
    LET hits == {i \in 1..Len(cs) : cs[i].id = id}
    IN IF hits = {} THEN Undefined
       ELSE Some(cs[CHOOSE i \in hits : \A k \in hits : i <= k])

-----------------------------------------------------------------------------
(* ClientList: construction and render *)

(* How a call to a collaborator (onEditClient, onDeleteClient) ends for the   *)
(* handler: it returns, it returns a promise that rejects later (the handler *)
(* does not await it), or it throws.                                         *)
Outcomes == {"returns", "rejects", "throws"}

NoAction == [name |-> "none", id |-> "", run |-> 0, start |-> Undefined]

Handler(name) ==
    [name |-> name, id |-> "", run |-> 1, start |-> Undefined]

(* client.fullName, client.email, ... of the value find() returned: reading *)
(* a field of undefined raises a TypeError and nothing is rendered.          *)
detailFields(client) ==
    IF client = Undefined
    THEN [fields |-> Undefined, error |-> TRUE]
    ELSE [fields |-> client, error |-> FALSE]

(* The details Dialog's content with "showDetails &&" as its only guard *)
detailsContent_noLookup(cs, sd) ==
    IF sd # Undefined
    THEN detailFields(findClient(cs, sd[1]))
    ELSE [fields |-> Undefined, error |-> FALSE]

(* {showDetails && clients.find(c => c.id === showDetails) && (() => {       *)
(*    const client = clients.find(c => c.id === showDetails)!; ... })()}     *)
detailsContent(cs, sd) ==
    IF sd # Undefined /\ findClient(cs, sd[1]) # Undefined
    THEN detailFields(findClient(cs, sd[1]))
    ELSE [fields |-> Undefined, error |-> FALSE]

InitClientList(cs) ==
    /\ clients = cs
    /\ filterParams = DefaultFilterParams
    /\ showFilters = FALSE
    /\ clientToDelete = Undefined
    /\ showDetails = Undefined
    /\ filteredClients = filterClients(cs, DefaultFilterParams)
    /\ detailsPanel = detailsContent(cs, Undefined)
    /\ deleteCalls = <<>>
    /\ editCalls = <<>>
    /\ lastAction = NoAction
    /\ resetFrom = Undefined
    /\ intent = Undefined

Render ==
    /\ filteredClients' = filterClients(clients', filterParams')
    /\ detailsPanel' = detailsContent(clients', showDetails')

IsVisible(c) == \E i \in 1..Len(filteredClients) : filteredClients[i] = c

detailsRendered ==
    showDetails # Undefined /\ findClient(clients, showDetails[1]) # Undefined

(* A handler that only sets the filter state *)
SetFilter(name, fp) ==
    /\ filterParams' = fp
    /\ lastAction' = Handler(name)
    /\ deleteCalls' = <<>>
    /\ editCalls' = <<>>
    /\ UNCHANGED <<clients, showFilters, clientToDelete, showDetails>>
    /\ resetFrom' = IF name = "resetFilters" THEN Some(filterParams) ELSE Undefined
    /\ UNCHANGED intent
    /\ Render
    /\ UNCHANGED loginVars

withFrom(fp, d) ==
    [fp EXCEPT !.dateRange = Some([from |-> d, to |-> dateTo(fp)])]

withTo(fp, d) ==
    [fp EXCEPT !.dateRange = Some([from |-> dateFrom(fp), to |-> d])]

SetSearch(s) == SetFilter("setSearch", [filterParams EXCEPT !.search = s])

ToggleFilters ==
    /\ showFilters' = ~showFilters
    /\ lastAction' = Handler("toggleFilters")
    /\ deleteCalls' = <<>>
    /\ editCalls' = <<>>
    /\ UNCHANGED <<clients, filterParams, clientToDelete, showDetails>>
    /\ resetFrom' = Undefined
    /\ UNCHANGED intent
    /\ Render
    /\ UNCHANGED loginVars

SelectAllTags ==
    /\ showFilters
    /\ SetFilter("selectAllTags", [filterParams EXCEPT !.tag = Undefined])

SelectTag(t) ==
    /\ showFilters
    /\ t \in uniqueTags(clients)
    /\ SetFilter("selectTag", [filterParams EXCEPT !.tag = Some(t)])

SelectFrom(d) ==
    /\ showFilters
    /\ SetFilter("selectFrom", withFrom(filterParams, d))

SelectTo(d) ==
    /\ showFilters
    /\ SetFilter("selectTo", withTo(filterParams, d))

(* Reset Filters as setFilterParams({ ...filterParams, search: "" }) *)
ResetFilters_searchOnly ==
    /\ showFilters
    /\ SetFilter("resetFilters", [filterParams EXCEPT !.search = <<>>])

(* onClick={() => setFilterParams({ search: "" })} *)
ResetFilters ==
    /\ showFilters
    /\ SetFilter("resetFilters", DefaultFilterParams)

-----------------------------------------------------------------------------
(* ClientList: the details view *)

(* The row click that always shows the clicked client *)
toggleDetails_alwaysShows(sd, id) == Some(id)

(* client.id === showDetails ? null : client.id *)
toggleDetails(sd, id) == IF sd = Some(id) THEN Undefined ELSE Some(id)

RowClick(c) ==
    /\ IsVisible(c)
    /\ showDetails' = toggleDetails(showDetails, c.id)
    /\ LET again == /\ lastAction.name = "rowClick"
                     /\ lastAction.id = c.id
                     /\ lastAction.run = 1
       IN lastAction' = [name |-> "rowClick", id |-> c.id,
                         run |-> IF again THEN 2 ELSE 1,
                         start |-> IF again THEN lastAction.start ELSE showDetails]
    /\ deleteCalls' = <<>>
    /\ editCalls' = <<>>
    /\ UNCHANGED <<clients, filterParams, showFilters, clientToDelete>>
    /\ resetFrom' = Undefined
    /\ UNCHANGED intent
    /\ Render
    /\ UNCHANGED loginVars

(* The row's edit button: onEditClient(client) *)
RowEdit(c, outcome) ==
    /\ IsVisible(c)
    /\ editCalls' = <<c>>
    /\ deleteCalls' = <<>>
    /\ lastAction' = Handler("rowEdit")
    /\ UNCHANGED <<clients, filterParams, showFilters, clientToDelete, showDetails>>
    /\ resetFrom' = Undefined
    /\ UNCHANGED intent
    /\ Render
    /\ UNCHANGED loginVars

DismissDetailsDialog ==
    /\ showDetails # Undefined
    /\ showDetails' = Undefined
    /\ lastAction' = Handler("dismissDetailsDialog")
    /\ deleteCalls' = <<>>
    /\ editCalls' = <<>>
    /\ UNCHANGED <<clients, filterParams, showFilters, clientToDelete>>
    /\ resetFrom' = Undefined
    /\ UNCHANGED intent
    /\ Render
    /\ UNCHANGED loginVars

CloseDetails ==
    /\ detailsRendered
    /\ showDetails' = Undefined
    /\ lastAction' = Handler("closeDetails")
    /\ deleteCalls' = <<>>
    /\ editCalls' = <<>>
    /\ UNCHANGED <<clients, filterParams, showFilters, clientToDelete>>
    /\ resetFrom' = Undefined
    /\ UNCHANGED intent
    /\ Render
    /\ UNCHANGED loginVars

(* The "Edit Client" onClick with setShowDetails(null) outside the if *)
editClientClick_alwaysCloses(cs, sd, outcome) ==
    LET client == IF sd = Undefined THEN Undefined ELSE findClient(cs, sd[1])
    IN IF client # Undefined
       THEN [editCalls |-> <<client[1]>>,
             showDetails |-> IF outcome = "throws" THEN sd ELSE Undefined]
       ELSE [editCalls |-> <<>>, showDetails |-> Undefined]

(* The body of the "Edit Client" onClick, run on (clients, showDetails): the  *)
(* calls it makes to onEditClient and the showDetails it leaves.  A call that *)
(* throws ends the handler before setShowDetails(null).                       *)
editClientClick(cs, sd, outcome) ==
    LET client == IF sd = Undefined THEN Undefined ELSE findClient(cs, sd[1])
    IN IF client # Undefined
       THEN [editCalls |-> <<client[1]>>,
             showDetails |-> IF outcome = "throws" THEN sd ELSE Undefined]
       ELSE [editCalls |-> <<>>, showDetails |-> sd]

EditFromDetails(outcome) ==
    /\ detailsRendered
    /\ editCalls' = editClientClick(clients, showDetails, outcome).editCalls
    /\ showDetails' = editClientClick(clients, showDetails, outcome).showDetails
    /\ lastAction' = Handler("editFromDetails")
    /\ deleteCalls' = <<>>
    /\ UNCHANGED <<clients, filterParams, showFilters, clientToDelete>>
    /\ resetFrom' = Undefined
    /\ UNCHANGED intent
    /\ Render
    /\ UNCHANGED loginVars

-----------------------------------------------------------------------------
(* ClientList: the delete confirmation *)

DeleteIntent(c) ==
    /\ IsVisible(c)
    /\ clientToDelete' = Some(c)
    /\ lastAction' = Handler("deleteIntent")
    /\ deleteCalls' = <<>>
    /\ editCalls' = <<>>
    /\ UNCHANGED <<clients, filterParams, showFilters, showDetails>>
    /\ resetFrom' = Undefined
    /\ intent' = Some([id |-> c.id, confirmed |-> FALSE])
    /\ Render
    /\ UNCHANGED loginVars

DismissDeleteDialog ==
    /\ clientToDelete # Undefined
    /\ clientToDelete' = Undefined
    /\ lastAction' = Handler("dismissDeleteDialog")
    /\ deleteCalls' = <<>>
    /\ editCalls' = <<>>
    /\ UNCHANGED <<clients, filterParams, showFilters, showDetails>>
    /\ resetFrom' = Undefined
    /\ intent' = Undefined
    /\ Render
    /\ UNCHANGED loginVars

(* The Cancel onClick with the Delete button's call in it *)
CancelDelete_deletes ==
    /\ clientToDelete # Undefined
    /\ clientToDelete' = Undefined
    /\ lastAction' = Handler("cancelDelete")
    /\ deleteCalls' = <<clientToDelete[1].id>>
    /\ editCalls' = <<>>
    /\ UNCHANGED <<clients, filterParams, showFilters, showDetails>>
    /\ resetFrom' = Undefined
    /\ intent' = Undefined
    /\ Render
    /\ UNCHANGED loginVars

(* <Button variant="outline" onClick={() => setClientToDelete(null)}> *)
CancelDelete ==
    /\ clientToDelete # Undefined
    /\ clientToDelete' = Undefined
    /\ lastAction' = Handler("cancelDelete")
    /\ deleteCalls' = <<>>
    /\ editCalls' = <<>>
    /\ UNCHANGED <<clients, filterParams, showFilters, showDetails>>
    /\ resetFrom' = Undefined
    /\ intent' = Undefined
    /\ Render
    /\ UNCHANGED loginVars

(* The "Delete" onClick without setClientToDelete(null) *)
confirmDeleteClick_noClear(ctd, outcome) ==
    IF ctd # Undefined
    THEN [deleteCalls |-> <<ctd[1].id>>, clientToDelete |-> ctd]
    ELSE [deleteCalls |-> <<>>, clientToDelete |-> ctd]

(* The "Delete" onClick with setClientToDelete(null) before the call *)
confirmDeleteClick_clearsFirst(ctd, outcome) ==
    IF ctd # Undefined
    THEN [deleteCalls |-> <<ctd[1].id>>, clientToDelete |-> Undefined]
    ELSE [deleteCalls |-> <<>>, clientToDelete |-> ctd]

(* The body of the "Delete" onClick, run on clientToDelete: the calls it      *)
(* makes to onDeleteClient and the clientToDelete it leaves.  A call that     *)
(* throws ends the handler before setClientToDelete(null).                    *)
confirmDeleteClick(ctd, outcome) ==
    IF ctd # Undefined
    THEN [deleteCalls |-> <<ctd[1].id>>,
          clientToDelete |-> IF outcome = "throws" THEN ctd ELSE Undefined]
    ELSE [deleteCalls |-> <<>>, clientToDelete |-> ctd]

ConfirmDelete(outcome) ==
    /\ clientToDelete # Undefined
    /\ deleteCalls' = confirmDeleteClick(clientToDelete, outcome).deleteCalls
    /\ clientToDelete' = confirmDeleteClick(clientToDelete, outcome).clientToDelete
    /\ lastAction' = Handler("confirmDelete")
    /\ editCalls' = <<>>
    /\ UNCHANGED <<clients, filterParams, showFilters, showDetails>>
    /\ resetFrom' = Undefined
    /\ intent' = IF intent # Undefined /\ outcome = "throws"
                 THEN Some([intent[1] EXCEPT !.confirmed = TRUE])
                 ELSE Undefined
    /\ Render
    /\ UNCHANGED loginVars

(* The parent renders ClientList with another collection *)
ClientsChange(cs) ==
    /\ cs # clients
    /\ clients' = cs
    /\ lastAction' = Handler("clientsChange")
    /\ deleteCalls' = <<>>
    /\ editCalls' = <<>>
    /\ UNCHANGED <<filterParams, showFilters, clientToDelete, showDetails>>
    /\ resetFrom' = Undefined
    /\ UNCHANGED intent
    /\ Render
    /\ UNCHANGED loginVars

-----------------------------------------------------------------------------
(* Login *)

ValidationToast ==
    [title |-> "Error", description |-> "Please enter both email and password",
     variant |-> "destructive"]
LoginSuccessToast ==
    [title |-> "Success", description |-> "You have successfully logged in",
     variant |-> "default"]
LoginFailedToast ==
    [title |-> "Error", description |-> "Failed to log in. Please check your credentials.",
     variant |-> "destructive"]
GoogleSuccessToast ==
    [title |-> "Success", description |-> "You have successfully logged in with Google",
     variant |-> "default"]
GoogleFailedToast ==
    [title |-> "Error", description |-> "Failed to log in with Google.",
     variant |-> "destructive"]

EmailInputs == {"", "name@example.com"}
PasswordInputs == {"", "secret"}
LoginResults == {"resolves", "rejects"}

InitLogin ==
    /\ email = ""
    /\ password = ""
    /\ isLoading = FALSE
    /\ pending = "none"
    /\ toasts = <<>>
    /\ navigateCalls = <<>>
    /\ location = "/login"

SetEmail(e) ==
    /\ location = "/login"
    /\ e # email
    /\ email' = e
    /\ UNCHANGED <<password, isLoading, pending, toasts, navigateCalls, location>>
    /\ UNCHANGED clientVars

SetPassword(p) ==
    /\ location = "/login"
    /\ p # password
    /\ password' = p
    /\ UNCHANGED <<email, isLoading, pending, toasts, navigateCalls, location>>
    /\ UNCHANGED clientVars

(* handleLogin up to its return or its await *)
handleLogin ==
    /\ location = "/login"
    /\ ~isLoading
    /\ Len(toasts) < MaxToasts
    /\ IF email = "" \/ password = ""
       THEN /\ toasts' = Append(toasts, ValidationToast)
            /\ isLoading' = FALSE
            /\ pending' = "none"
       ELSE /\ toasts' = toasts
            /\ isLoading' = TRUE
            /\ pending' = "handleLogin"
    /\ UNCHANGED <<email, password, navigateCalls, location>>
    /\ UNCHANGED clientVars

(* handleGoogleLogin up to its await *)
handleGoogleLogin ==
    /\ location = "/login"
    /\ ~isLoading
    /\ Len(toasts) < MaxToasts
    /\ isLoading' = TRUE
    /\ pending' = "handleGoogleLogin"
    /\ UNCHANGED <<email, password, toasts, navigateCalls, location>>
    /\ UNCHANGED clientVars

(* The handler with navigate("/dashboard") after the try statement *)
afterLogin_navigatesAnyway(handler, result) ==
    IF result = "resolves"
    THEN [toast |-> IF handler = "handleLogin" THEN LoginSuccessToast
                    ELSE GoogleSuccessToast,
          navigate |-> <<"/dashboard">>]
    ELSE [toast |-> IF handler = "handleLogin" THEN LoginFailedToast
                    ELSE GoogleFailedToast,
          navigate |-> <<"/dashboard">>]

(* The rest of the suspended handler, once login(...) has settled *)
afterLogin(handler, result) ==
    IF result = "resolves"
    THEN [toast |-> IF handler = "handleLogin" THEN LoginSuccessToast
                    ELSE GoogleSuccessToast,
          navigate |-> <<"/dashboard">>]
    ELSE [toast |-> IF handler = "handleLogin" THEN LoginFailedToast
                    ELSE GoogleFailedToast,
          navigate |-> <<>>]

LoginSettles(result) ==
    /\ pending # "none"
    /\ toasts' = Append(toasts, afterLogin(pending, result).toast)
    /\ navigateCalls' = navigateCalls \o afterLogin(pending, result).navigate
    /\ location' = IF afterLogin(pending, result).navigate # <<>>
                   THEN afterLogin(pending, result).navigate[1]
                   ELSE location
    /\ isLoading' = FALSE
    /\ pending' = "none"
    /\ UNCHANGED <<email, password>>
    /\ UNCHANGED clientVars

(* isAuthenticated: the render returns <Navigate to="/dashboard" /> *)
AuthenticatedRender ==
    /\ location = "/login"
    /\ location' = "/dashboard"
    /\ UNCHANGED <<email, password, isLoading, pending, toasts, navigateCalls>>
    /\ UNCHANGED clientVars

-----------------------------------------------------------------------------
(* Collections and inputs *)

SeqsUpTo(S, n) == UNION {[1..k -> S] : k \in 0..n}

DistinctIds(cs) ==
    \A i, j \in 1..Len(cs) : i # j => cs[i].id # cs[j].id

Acme == Client("1", <<"A", "b">>, <<"a">>, Undefined, Some(<<"VIP">>), 1)
AcmeUpdated == Client("1", <<"B">>, <<"a">>, Some(<<"A">>), Some(<<"VIP", "">>), 1)
Beta == Client("2", <<"b", "a">>, <<"b">>, Some(<<"a", "B">>), Undefined, 2)

ClientPool == {Acme, AcmeUpdated, Beta}
Collections == {cs \in SeqsUpTo(ClientPool, MaxClients) : DistinctIds(cs)}
PoolSearchInputs == {<<>>, <<"a">>}
PoolDateInputs == {Undefined, Some(1)}

IdOf(i) == CASE i = 1 -> "1" [] i = 2 -> "2" [] i = 3 -> "3" [] OTHER -> "4"

(* Collections whose clients differ in the searched texts *)
NameValues == {<<"A", "b">>, <<"b", "a">>, <<"B">>}
EmailValues == {<<"a">>, <<"b">>}
CompanyValues == {Undefined, Some(<<>>), Some(<<"a", "B">>), Some(<<"A">>)}
SearchInputs == {<<>>, <<"a">>, <<"A">>, <<"A", "b">>, <<"B", "a">>, <<"b", "b">>}
TextProfiles == NameValues \X EmailValues \X CompanyValues
TextCollections ==
    {[i \in 1..Len(ps) |->
        Client(IdOf(i), ps[i][1], ps[i][2], ps[i][3], Undefined, 1)] :
     ps \in SeqsUpTo(TextProfiles, MaxClients)}

(* Collections whose clients differ in createdAt *)
DateCollections ==
    {[i \in 1..Len(ts) |->
        Client(IdOf(i), <<"a">>, <<"b">>, Undefined, Undefined, ts[i])] :
     ts \in SeqsUpTo(CreatedAtValues, MaxClients)}

-----------------------------------------------------------------------------
(* Specifications *)

Init ==
    /\ \E cs \in Collections : InitClientList(cs)
    /\ InitLogin

Next ==
    \/ \E s \in PoolSearchInputs : SetSearch(s)
    \/ ToggleFilters
    \/ SelectAllTags
    \/ \E t \in uniqueTags(clients) : SelectTag(t)
    \/ \E d \in PoolDateInputs : SelectFrom(d)
    \/ \E d \in PoolDateInputs : SelectTo(d)
    \/ ResetFilters
    \/ \E c \in ClientPool : RowClick(c)
    \/ \E c \in ClientPool, o \in Outcomes : RowEdit(c, o)
    \/ DismissDetailsDialog
    \/ CloseDetails
    \/ \E o \in Outcomes : EditFromDetails(o)
    \/ \E c \in ClientPool : DeleteIntent(c)
    \/ DismissDeleteDialog
    \/ CancelDelete
    \/ \E o \in Outcomes : ConfirmDelete(o)
    \/ \E cs \in Collections : ClientsChange(cs)

Spec == Init /\ [][Next]_vars

InitSearch ==
    /\ \E cs \in TextCollections : InitClientList(cs)
    /\ InitLogin

NextSearch == \E s \in SearchInputs : SetSearch(s)

SpecSearch == InitSearch /\ [][NextSearch]_vars

InitDate ==
    /\ \E cs \in DateCollections : InitClientList(cs)
    /\ InitLogin

NextDate ==
    \/ ToggleFilters
    \/ \E d \in DateInputs : SelectFrom(d)
    \/ \E d \in DateInputs : SelectTo(d)
    \/ ResetFilters

SpecDate == InitDate /\ [][NextDate]_vars

InitLoginScreen ==
    /\ InitClientList(<<>>)
    /\ InitLogin

NextLogin ==
    \/ \E e \in EmailInputs : SetEmail(e)
    \/ \E p \in PasswordInputs : SetPassword(p)
    \/ handleLogin
    \/ handleGoogleLogin
    \/ \E r \in LoginResults : LoginSettles(r)
    \/ AuthenticatedRender

SpecLogin == InitLoginScreen /\ [][NextLogin]_vars

-----------------------------------------------------------------------------
(* Properties of the filter *)

CasePairs == {{"a", "A"}, {"b", "B"}}
SameLetter(x, y) == x = y \/ {x, y} \in CasePairs

(* s occurs in text, letters compared without regard to case *)
OccursIgnoringCase(s, text) ==
    \E off \in 0..(Len(text) - Len(s)) :
        \A j \in 1..Len(s) : SameLetter(text[off + j], s[j])

SearchHit(c, s) ==
    \/ OccursIgnoringCase(s, c.fullName)
    \/ OccursIgnoringCase(s, c.email)
    \/ c.companyName # Undefined /\ OccursIgnoringCase(s, c.companyName[1])

Shown(c) == \E k \in 1..Len(filteredClients) : filteredClients[k] = c

\* C8: with a non-empty search text and no tag or date filter, a client is in
\* the visible list if and only if the text occurs, ignoring case, in its
\* fullName, its email or its companyName; a client without companyName is
\* matched through fullName or email only; the visible list holds clients of
\* the collection only.
C8_SearchIffOccurs ==
    (/\ filterParams.search # <<>>
     /\ filterParams.tag = Undefined
     /\ filterParams.dateRange = Undefined)
    => /\ \A i \in 1..Len(clients) :
             Shown(clients[i]) <=> SearchHit(clients[i], filterParams.search)
       /\ \A k \in 1..Len(filteredClients) :
             \E i \in 1..Len(clients) : clients[i] = filteredClients[k]

\* C8 witness: a search text with an upper-case letter shows one of two
\* clients, matched through its companyName alone, and hides a client that
\* has no companyName.
C8_Witness ==
    /\ filterParams.search = <<"A", "b">>
    /\ Len(clients) = 2
    /\ filteredClients = <<clients[2]>>
    /\ clients[1].companyName = Undefined
    /\ clients[2].fullName = <<"B">>
    /\ clients[2].email = <<"a">>
    /\ clients[2].companyName = Some(<<"a", "B">>)

(* Properties of the date range *)

ValidBound(b) == b # Undefined /\ b[1] # NaN

\* C6: with two valid bounds D1 < D2, every client of the visible list has a
\* createdAt strictly after D1 and strictly before D2, and a client whose
\* createdAt is D1 or D2 is not in the list; with one valid bound only (the
\* other absent or invalid, no search, no tag), the list is exactly the
\* clients strictly on the right side of that bound.
C6_StrictlyBetween ==
    LET from == dateFrom(filterParams)
        to == dateTo(filterParams)
    IN /\ (ValidBound(from) /\ ValidBound(to) /\ from[1] < to[1])
          => /\ \A k \in 1..Len(filteredClients) :
                   /\ filteredClients[k].createdAt >= 0
                   /\ from[1] < filteredClients[k].createdAt
                   /\ filteredClients[k].createdAt < to[1]
             /\ \A i \in 1..Len(clients) :
                   clients[i].createdAt \in {from[1], to[1]} => ~Shown(clients[i])
       /\ (/\ ValidBound(from) /\ ~ValidBound(to)
           /\ filterParams.search = <<>> /\ filterParams.tag = Undefined)
          => filteredClients =
                SelectSeq(clients, LAMBDA c : c.createdAt >= 0 /\ c.createdAt > from[1])
       /\ (/\ ~ValidBound(from) /\ ValidBound(to)
           /\ filterParams.search = <<>> /\ filterParams.tag = Undefined)
          => filteredClients =
                SelectSeq(clients, LAMBDA c : c.createdAt >= 0 /\ c.createdAt < to[1])

\* C6 witness: the range (1, 3) hides a client created at 1 and one created
\* at 3 (if any) and shows the client created at 2.
C6_Witness ==
    /\ dateFrom(filterParams) = Some(1)
    /\ dateTo(filterParams) = Some(3)
    /\ Len(clients) = 2
    /\ clients[1].createdAt = 1
    /\ clients[2].createdAt = 2
    /\ filteredClients = <<clients[2]>>

TagsOf(c) == IF c.tags = Undefined THEN {} ELSE {c.tags[1][j] : j \in 1..Len(c.tags[1])}

SearchPredicate(c, fp) == fp.search = <<>> \/ SearchHit(c, fp.search)

TagPredicate(c, fp) == fp.tag = Undefined \/ fp.tag[1] \in TagsOf(c)

DatePredicate(c, fp) ==
    /\ ValidBound(dateFrom(fp)) => (c.createdAt >= 0 /\ c.createdAt > dateFrom(fp)[1])
    /\ ValidBound(dateTo(fp)) => (c.createdAt >= 0 /\ c.createdAt < dateTo(fp)[1])

\* C1: the visible list is exactly the subsequence of the collection, in the
\* collection's order, of the clients for which the search predicate, the tag
\* predicate and the date-range predicate all hold.
C1_VisibleIsTheSubsequence ==
    filteredClients =
        SelectSeq(clients, LAMBDA c : /\ SearchPredicate(c, filterParams)
                                      /\ TagPredicate(c, filterParams)
                                      /\ DatePredicate(c, filterParams))

\* C5: with a tag t set, no search text and no date range, the visible list
\* is exactly the clients whose tags contain t; a client without tags is
\* never in it.
C5_TagSelectsItsClients ==
    (/\ filterParams.tag # Undefined
     /\ filterParams.search = <<>>
     /\ dateFrom(filterParams) = Undefined
     /\ dateTo(filterParams) = Undefined)
    => filteredClients = SelectSeq(clients, LAMBDA c : filterParams.tag[1] \in TagsOf(c))

(* What holds of C1 and C5: the same statements for a tag that is not the     *)
(* empty string.                                                             *)
VisibleIsTheSubsequenceUnlessEmptyTag ==
    filterParams.tag # Some("") => C1_VisibleIsTheSubsequence

TagSelectsItsClientsUnlessEmptyTag ==
    filterParams.tag # Some("") => C5_TagSelectsItsClients

-----------------------------------------------------------------------------
(* Properties of the details view *)

\* C9: a row click on client X leaves the details view Hidden when it showed
\* X, and showing X when it was Hidden or showed another client; two row
\* clicks on X in a row, the first one from Hidden, leave it Hidden.
C9_RowClickToggles ==
    lastAction.name = "rowClick"
    => /\ lastAction.run = 1
          => showDetails = IF lastAction.start = Some(lastAction.id)
                           THEN Undefined
                           ELSE Some(lastAction.id)
       /\ (lastAction.run = 2 /\ lastAction.start = Undefined)
          => showDetails = Undefined

\* C9 witness: client 1 was clicked twice in a row from Hidden, and the
\* details view is Hidden.
C9_Witness ==
    /\ lastAction = [name |-> "rowClick", id |-> "1", run |-> 2, start |-> Undefined]
    /\ showDetails = Undefined

(* The client of the collection with this id *)
ClientWithId(cs, id) == {cs[i] : i \in {k \in 1..Len(cs) : cs[k].id = id}}

-----------------------------------------------------------------------------
(* Properties of the delete confirmation *)

-----------------------------------------------------------------------------
(* Properties of the login handlers *)

FailedToastOf(handler) ==
    IF handler = "handleLogin" THEN LoginFailedToast ELSE GoogleFailedToast

\* C4: when login(...) rejects, the handler shows its destructive failure
\* toast and does not navigate; a handler navigates to /dashboard only in the
\* step in which login(...) has resolved.
C4_RejectionToastsAndStays ==
    [][/\ LoginSettles("rejects")
            => /\ toasts' = Append(toasts, FailedToastOf(pending))
               /\ toasts'[Len(toasts')].variant = "destructive"
               /\ navigateCalls' = navigateCalls
               /\ location' = location
       /\ navigateCalls' # navigateCalls
            => /\ LoginSettles("resolves")
               /\ navigateCalls' = Append(navigateCalls, "/dashboard")]_vars

\* C4 witness: login(email, password) rejected; the failure toast is shown,
\* no handler has navigated and the route is still /login.
C4_Witness ==
    /\ toasts # <<>>
    /\ toasts[Len(toasts)] = LoginFailedToast
    /\ navigateCalls = <<>>
    /\ location = "/login"
    /\ pending = "none"
    /\ ~isLoading

-----------------------------------------------------------------------------
(* The details Dialog renders a client's fields only for a selection that    *)
(* names a client of the collection                                          *)

(* C11: in every state the detail fields are rendered only if showDetails is *)
(* set and a client with that id is in the current collection, and they are  *)
(* that client's; when showDetails names an id absent from the collection    *)
(* nothing is rendered and the render raises no error.                       *)
C11_DetailsOnlyForAPresentClient ==
    /\ ~detailsPanel.error
    /\ detailsPanel.fields # Undefined =>
          /\ showDetails # Undefined
          /\ detailsPanel.fields[1] \in ClientWithId(clients, showDetails[1])
    /\ (showDetails # Undefined /\ ClientWithId(clients, showDetails[1]) = {}) =>
          detailsPanel.fields = Undefined

(* The collection changed under a held selection and lost the selected id *)
C11_Witness ==
    /\ lastAction.name = "clientsChange"
    /\ showDetails = Some("2")
    /\ clients = <<Acme>>
    /\ detailsPanel = [fields |-> Undefined, error |-> FALSE]

-----------------------------------------------------------------------------
(* Reset Filters restores the default filter and the whole list *)

(* C12: from any filter state, Reset Filters leaves FilterParams at its      *)
(* defaults (search the empty text, tag absent, dateRange absent), and with  *)
(* the default filters the visible list is the whole collection in its       *)
(* original order.                                                           *)
C12_ResetRestoresDefaults ==
    /\ lastAction.name = "resetFilters" =>
          /\ filterParams.search = <<>>
          /\ filterParams.tag = Undefined
          /\ filterParams.dateRange = Undefined
          /\ filteredClients = clients
    /\ filterParams = DefaultFilterParams => filteredClients = clients

(* A reset that replaced a search, a tag and a date bound at once *)
C12_Witness ==
    /\ lastAction.name = "resetFilters"
    /\ resetFrom = Some([search |-> <<"a">>, tag |-> Some("VIP"),
                         dateRange |-> Some([from |-> Some(1), to |-> Undefined])])
    /\ filterParams = DefaultFilterParams
    /\ clients = <<Acme, Beta>>
    /\ filteredClients = <<Acme, Beta>>

-----------------------------------------------------------------------------
(* Who invokes onDeleteClient *)

=============================================================================
